---- MODULE Spec2Model ----
(***************************************************************************)
(* Model of the wallet ledger service: the HTTP handlers of                *)
(* internal/service/wallet.go running as concurrent requests against the   *)
(* PostgreSQL schema, constraints and triggers of migrations/init.sql.     *)
(*                                                                         *)
(* Units.  Stored balances and stored amounts are DECIMAL(20,2): they are  *)
(* modelled as integers counting cents.  A request amount is a float64     *)
(* that the driver sends as decimal text; it is modelled as an integer     *)
(* counting half-cents, so that amounts with a third decimal digit (0.005) *)
(* and their rounding to two decimals by the storage are represented.      *)
(*                                                                         *)
(* Identifiers.  A request carries an identifier as text; a text is a      *)
(* sequence of byte codes.  An account row is keyed by the UUID value,     *)
(* represented by its canonical (lower-case) text.                         *)
(***************************************************************************)
EXTENDS Integers, Sequences, FiniteSets, TLC

\* ------------------------------------------------------------------ bounds
NumRequests == 2
MaxAmount == 2

Procs == 1..NumRequests

\* ------------------------------------------------------- identifier texts
LowerA == <<97>>
LowerB == <<98>>
UpperB == <<66>>
EmptyText == <<>>
NotHex == <<103>>
LowerC == <<99>>
LowerD == <<100>>

IdTexts == {LowerA, LowerB, UpperB, EmptyText, NotHex}

Amounts == (0 - 1)..MaxAmount

\* the transfer bodies a client sends
Requests == [from : IdTexts, to : IdTexts, amount : Amounts]

\* the account bodies a client sends; balances are in half-cents
Bodies == [id : {LowerA, LowerB, NotHex, EmptyText}, balance : {0 - 1, 2},
           currency : {"USD", "EUR", "XYZ"}]

IsHex(c) == c \in 48..57 \/ c \in 65..70 \/ c \in 97..102

ToLower(c) == IF c \in 65..90 THEN c + 32 ELSE c

\* uuid.Parse succeeds (err == nil): hexadecimal digits in either case
uuidParseOk(s) == s # <<>> /\ \A i \in DOMAIN s : IsHex(s[i])

\* the UUID value a text denotes, as its canonical lower-case text
uuidValue(s) == [i \in DOMAIN s |-> ToLower(s[i])]

\* Go's string comparison a < b: bytewise lexicographic
StrLess(s, t) ==
    \/ \E i \in 1..Len(s) :
          /\ i <= Len(t)
          /\ s[i] < t[i]
          /\ \A j \in 1..(i - 1) : s[j] = t[j]
    \/ /\ Len(s) < Len(t)
       /\ \A j \in 1..Len(s) : s[j] = t[j]

\* ------------------------------------------------------------- validation
validateUUID4(value) == value = <<>> \/ uuidParseOk(value)

\* one violation at most per field: the first failing tag of the field
FieldFrom(tx) ==
    IF tx.from = <<>> THEN <<[field |-> "From", tag |-> "required"]>>
    ELSE IF ~validateUUID4(tx.from) THEN <<[field |-> "From", tag |-> "uuid4"]>>
    ELSE <<>>

\* (variant: the To field without its nefield=From tag)
FieldToRequiredUuid4(tx) ==
    IF tx.to = <<>> THEN <<[field |-> "To", tag |-> "required"]>>
    ELSE IF ~validateUUID4(tx.to) THEN <<[field |-> "To", tag |-> "uuid4"]>>
    ELSE <<>>

FieldTo(tx) ==
    IF tx.to = <<>> THEN <<[field |-> "To", tag |-> "required"]>>
    ELSE IF ~validateUUID4(tx.to) THEN <<[field |-> "To", tag |-> "uuid4"]>>
    ELSE IF tx.to = tx.from THEN <<[field |-> "To", tag |-> "nefield"]>>
    ELSE <<>>

FieldAmount(tx) ==
    IF tx.amount = 0 THEN <<[field |-> "Amount", tag |-> "required"]>>
    ELSE IF ~(tx.amount > 0) THEN <<[field |-> "Amount", tag |-> "gt"]>>
    ELSE <<>>

ValidateTransaction(tx) == FieldFrom(tx) \o FieldTo(tx) \o FieldAmount(tx)

\* Currency.IsValid
IsValid(c) == c \in {"USD", "EUR", "GBP", "KZT"}

\* (variant: the currency tag accepts every code)
validateCurrencyAny(c) == TRUE

validateCurrency(c) == IsValid(c)

\* ID: omitempty,uuid4   Balance: omitempty,min=0   Currency: required,currency
FieldID(a) ==
    IF a.id = <<>> THEN <<>>
    ELSE IF ~validateUUID4(a.id) THEN <<[field |-> "ID", tag |-> "uuid4"]>>
    ELSE <<>>

FieldBalance(a) ==
    IF a.balance = 0 THEN <<>>
    ELSE IF ~(a.balance >= 0) THEN <<[field |-> "Balance", tag |-> "min"]>>
    ELSE <<>>

FieldCurrency(a) ==
    IF a.currency = "" THEN <<[field |-> "Currency", tag |-> "required"]>>
    ELSE IF ~validateCurrency(a.currency)
         THEN <<[field |-> "Currency", tag |-> "currency"]>>
    ELSE <<>>

ValidateAccount(a) == FieldID(a) \o FieldBalance(a) \o FieldCurrency(a)

\* ------------------------------------------------------- storage numerics
\* a value in half-cents stored into a DECIMAL(20,2) column: rounded to
\* cents, ties away from zero
RoundNumeric(x) ==
    IF x >= 0 THEN (x + 1) \div 2 ELSE 0 - ((1 - x) \div 2)

\* a stored DECIMAL(20,2) value (cents) as the exact number, in half-cents
Exact(cents) == 2 * cents

\* ------------------------------------------------------------------ state
VARIABLES
    accounts,      \* committed rows of table accounts, keyed by UUID value
    transactions,  \* committed rows of table transactions, in commit order
    seq,           \* last value of the SERIAL sequence of transactions.id
    clock,         \* storage clock; CURRENT_TIMESTAMP is the time of BEGIN
    pc,            \* position of each request in its handler
    req,           \* the decoded transfer body (var tx Transaction)
    acc,           \* the decoded account body (var acc Account)
    created,       \* uncommitted accounts rows of the transaction
    txStart,       \* start time of the request's storage transaction
    fromAcc,       \* var fromAcc Account
    toAcc,         \* var toAcc Account
    locks,         \* row locks held by the request's transaction, in order
    writes,        \* uncommitted balances written by the transaction
    inserted,      \* uncommitted transactions rows of the transaction
    outcome,       \* the response written
    cfg,           \* ws.cfg.App.TransactionHistoryLimit
    qpc,           \* position of the query client's request in its handler
    query,         \* the path variable id of the history query in progress
    reply,         \* the response to the last query
    seen           \* the commits the last query response was made after

vars == <<accounts, transactions, seq, clock, pc, req, acc, created, txStart,
          fromAcc, toAcc, locks, writes, inserted, outcome, cfg, qpc, query,
          reply, seen>>

\* the state only CreateAccount uses, and the state only Transfer uses
createVars == <<acc, created>>

transferVars == <<seq, req, fromAcc, toAcc, locks, writes, inserted>>

\* the state only the query handlers use
queryVars == <<cfg, qpc, query, reply, seen>>

\* the state only the transfer and create handlers use
requestVars == <<seq, clock, pc, req, acc, created, txStart, fromAcc, toAcc,
                 locks, writes, inserted, outcome>>

ZeroTx == [from |-> <<>>, to |-> <<>>, amount |-> 0]
ZeroAccount == [id |-> <<>>, balance |-> 0]
ZeroBody == [id |-> <<>>, balance |-> 0, currency |-> ""]
NoRows == [k \in {} |-> 0]
NoWrites == [k \in {} |-> 0]
NoOutcome == [code |-> 0, kind |-> ""]
NoReply == [op |-> "", id |-> <<>>, code |-> 0, body |-> <<>>]
NoneSeen == [txs |-> 0, accts |-> 0, again |-> FALSE]

\* getEnv("WALLET_TRANSACTION_HISTORY_LIMIT", "100")
DefaultHistoryLimit == 100

InSeq(x, s) == \E i \in 1..Len(s) : s[i] = x

Exists(id) == id \in DOMAIN accounts

\* the balance of a row as the transaction of p sees it
View(p, id) ==
    IF id \in DOMAIN writes[p] THEN writes[p][id] ELSE accounts[id].balance

Put(f, k, v) == [x \in (DOMAIN f) \cup {k} |-> IF x = k THEN v ELSE f[x]]

\* (variant: the locked read locks the whole table, not the row)
LockFreeTable(p, id) == \A q \in Procs \ {p} : locks[q] = <<>>

\* (variant: the accounts are read without FOR UPDATE)
LockFreeAlways(p, id) == TRUE

\* no other transaction holds the row lock of id
LockFree(p, id) == \A q \in Procs \ {p} : ~InSeq(id, locks[q])

\* the balance (in cents) an account of the model is created with
OpeningBalance(id) == IF id = LowerA THEN 2 ELSE 1

\* the ledgers the transfers start from: account a in USD, and account b
\* in USD, in EUR, or not created yet
Seeds ==
    { [k \in {LowerA, LowerB} |->
          [balance |-> OpeningBalance(k),
           currency |-> IF k = LowerA THEN "USD" ELSE c,
           created_at |-> 0]] : c \in {"USD", "EUR"} }
    \cup
    { [k \in {LowerA} |->
          [balance |-> OpeningBalance(k), currency |-> "USD",
           created_at |-> 0]] }

\* the state of the requests and of the storage at start
InitLedger ==
    /\ accounts \in Seeds
    /\ transactions = <<>>
    /\ seq = 0
    /\ clock = 0
    /\ pc = [p \in Procs |-> "idle"]
    /\ req = [p \in Procs |-> ZeroTx]
    /\ acc = [p \in Procs |-> ZeroBody]
    /\ created = [p \in Procs |-> NoRows]
    /\ txStart = [p \in Procs |-> 0]
    /\ fromAcc = [p \in Procs |-> ZeroAccount]
    /\ toAcc = [p \in Procs |-> ZeroAccount]
    /\ locks = [p \in Procs |-> <<>>]
    /\ writes = [p \in Procs |-> NoWrites]
    /\ inserted = [p \in Procs |-> <<>>]
    /\ outcome = [p \in Procs |-> NoOutcome]

InitQueries ==
    /\ qpc = "idle"
    /\ query = <<>>
    /\ reply = NoReply
    /\ seen = NoneSeen

\* the service as deployed: the history limit is left at its default
Init == InitLedger /\ InitQueries /\ cfg = DefaultHistoryLimit

\* ------------------------------------------------------ ending a request
\* (variant: the rollback leaves the balances the transaction wrote)
RollbackPartial(p) ==
    /\ locks' = [locks EXCEPT ![p] = <<>>]
    /\ writes' = [writes EXCEPT ![p] = NoWrites]
    /\ inserted' = [inserted EXCEPT ![p] = <<>>]
    /\ accounts' = [id \in DOMAIN accounts |->
                       IF id \in DOMAIN writes[p]
                       THEN [accounts[id] EXCEPT !.balance = writes[p][id]]
                       ELSE accounts[id]]
    /\ transactions' = transactions

\* (variant: the rollback leaves the row locks held)
RollbackKeepLocks(p) ==
    /\ locks' = locks
    /\ writes' = [writes EXCEPT ![p] = NoWrites]
    /\ inserted' = [inserted EXCEPT ![p] = <<>>]
    /\ accounts' = accounts
    /\ transactions' = transactions

\* deferred dbTx.Rollback(): uncommitted writes and inserts are discarded,
\* the row locks are released; the committed tables are untouched
Rollback(p) ==
    /\ locks' = [locks EXCEPT ![p] = <<>>]
    /\ writes' = [writes EXCEPT ![p] = NoWrites]
    /\ inserted' = [inserted EXCEPT ![p] = <<>>]
    /\ accounts' = accounts
    /\ transactions' = transactions

\* the response is written and the handler returns
Respond(p, code, kind) ==
    /\ pc' = [pc EXCEPT ![p] = "done"]
    /\ outcome' = [outcome EXCEPT ![p] = [code |-> code, kind |-> kind]]
    /\ txStart' = [txStart EXCEPT ![p] = 0]

\* Transfer returns: its locals are gone
TransferRespond(p, code, kind) ==
    /\ Respond(p, code, kind)
    /\ req' = [req EXCEPT ![p] = ZeroTx]
    /\ fromAcc' = [fromAcc EXCEPT ![p] = ZeroAccount]
    /\ toAcc' = [toAcc EXCEPT ![p] = ZeroAccount]

\* (variant: an error return that leaves the storage transaction open)
AbortWithoutRollback(p, code, kind) ==
    /\ TransferRespond(p, code, kind)
    /\ UNCHANGED <<locks, writes, inserted, accounts, transactions>>

\* Transfer returns with an error after BeginTx
Abort(p, code, kind) == TransferRespond(p, code, kind) /\ Rollback(p)

\* ------------------------------------------------ pieces of the handlers
\* if tx.From < tx.To: the source row is locked first, else the destination
LockFromFirst(tx) == StrLess(tx.from, tx.to)

FirstLockText(tx) == IF LockFromFirst(tx) THEN tx.from ELSE tx.to

SecondLockText(tx) == IF LockFromFirst(tx) THEN tx.to ELSE tx.from

\* (variant: the comparison is off by one unit)
InsufficientFundsOffByOne(balance, amount) == Exact(balance) < amount - 1

\* if fromAcc.Balance < tx.Amount
InsufficientFunds(balance, amount) == Exact(balance) < amount

\* SET balance = balance - $1, stored into DECIMAL(20,2)
DebitValue(balance, amount) == RoundNumeric(Exact(balance) - amount)

\* SET balance = balance + $1, stored into DECIMAL(20,2)
CreditValue(balance, amount) == RoundNumeric(Exact(balance) + amount)

\* CHECK (balance >= 0)
BalanceCheck(balance) == balance >= 0

\* trigger check_balance_before_insert: raises when it returns FALSE
check_sufficient_balance(available_balance, amount) ==
    ~(available_balance < amount)

\* (variant: the currency trigger never raises)
check_currency_matchNever(from_currency, to_currency) == TRUE

\* trigger check_currency_before_insert: raises when it returns FALSE
check_currency_match(from_currency, to_currency) ==
    ~(from_currency # to_currency)

\* the column constraints of table transactions on a new row
TransactionChecks(row) ==
    /\ row.amount > 0
    /\ row.status \in {"pending", "completed", "failed"}
    /\ row.from_account # row.to_account
    /\ Exists(row.from_account)
    /\ Exists(row.to_account)

\* (variant: a schema without the sufficiency trigger and the balance CHECK)
InsertAcceptedUnchecked(w, row, after) ==
    /\ check_currency_match(accounts[row.from_account].currency,
                            accounts[row.to_account].currency)
    /\ TransactionChecks(row)

\* the INSERT is accepted: neither BEFORE trigger raises, the constraints of
\* the new row hold, and the balances the AFTER trigger leaves pass the
\* CHECK of accounts.balance
InsertAccepted(w, row, after) ==
    /\ check_sufficient_balance(w[row.from_account], row.amount)
    /\ check_currency_match(accounts[row.from_account].currency,
                            accounts[row.to_account].currency)
    /\ TransactionChecks(row)
    /\ \A id \in DOMAIN after : BalanceCheck(after[id])

\* trigger update_balances_after_insert, WHEN (NEW.status = 'completed'):
\* the balances the two UPDATEs of update_balances() leave, given the
\* balances w the transaction sees
update_balances(w, row) ==
    LET w1 == Put(w, row.from_account, w[row.from_account] - row.amount)
    IN  Put(w1, row.to_account, w1[row.to_account] + row.amount)

InTx == {"lock1", "lock2", "debit", "credit", "insert", "commit"}

\* the committed accounts after the writes of p are committed
CommitAccounts(p) ==
    [id \in DOMAIN accounts |->
        IF id \in DOMAIN writes[p]
        THEN [accounts[id] EXCEPT !.balance = writes[p][id]]
        ELSE accounts[id]]

\* ---------------------------------------------------------------- Transfer
\* the balances Transfer leaves when it runs alone, from its locked reads to
\* its commit, on committed balances bal: the sufficiency check, the two
\* UPDATEs, the INSERT with its triggers; bal itself on every error return
TransferResult(bal, tx) ==
    LET src == uuidValue(tx.from)
        dst == uuidValue(tx.to)
    IN  IF src \notin DOMAIN bal \/ dst \notin DOMAIN bal THEN bal
        ELSE IF InsufficientFunds(bal[src], tx.amount) THEN bal
        ELSE LET w1 == Put(bal, src, DebitValue(bal[src], tx.amount))
                 w2 == Put(w1, dst, CreditValue(w1[dst], tx.amount))
                 row == [from_account |-> src, to_account |-> dst,
                         amount |-> RoundNumeric(tx.amount),
                         status |-> "completed"]
                 w == [id \in {src, dst} |-> w2[id]]
                 after == update_balances(w, row)
             IN  IF \/ ~BalanceCheck(w1[src])
                    \/ ~BalanceCheck(w2[dst])
                    \/ ~InsertAccepted(w, row, after)
                 THEN bal
                 ELSE [id \in DOMAIN bal |->
                          IF id \in DOMAIN after THEN after[id] ELSE bal[id]]

\* transfer requests are numbered in the order the server receives them:
\* request p is received once the requests before it have been
Receivable(p) == pc[p] = "idle" /\ \A q \in 1..(p - 1) : pc[q] # "idle"

\* decode and validate the request body, then ws.db.BeginTx
TransferBegin(p, tx) ==
    /\ Receivable(p)
    /\ IF ValidateTransaction(tx) # <<>>
       THEN /\ TransferRespond(p, 400, "validation")
            /\ UNCHANGED <<accounts, transactions, locks, writes, inserted,
                           clock>>
       ELSE /\ pc' = [pc EXCEPT ![p] = "lock1"]
            /\ req' = [req EXCEPT ![p] = tx]
            /\ clock' = clock + 1
            /\ txStart' = [txStart EXCEPT ![p] = clock + 1]
            /\ UNCHANGED <<accounts, transactions, locks, writes, inserted,
                           outcome, fromAcc, toAcc>>
    /\ UNCHANGED seq
    /\ UNCHANGED createVars
    /\ UNCHANGED queryVars

\* ws.db.BeginTx returns an error: no storage transaction is begun
TransferBeginFault(p) ==
    /\ Receivable(p)
    /\ \E tx \in Requests : ValidateTransaction(tx) = <<>>
    /\ TransferRespond(p, 500, "fault")
    /\ UNCHANGED <<accounts, transactions, locks, writes, inserted, seq,
                   clock>>
    /\ UNCHANGED createVars
    /\ UNCHANGED queryVars

\* lockAndGetAccount of the row chosen first
TransferLockFirst(p) ==
    /\ pc[p] = "lock1"
    /\ LET tx == req[p]
           id == uuidValue(FirstLockText(tx))
       IN  IF ~Exists(id)
           THEN Abort(p, 404, "not_found")
           ELSE /\ LockFree(p, id)
                /\ locks' = [locks EXCEPT ![p] = Append(@, id)]
                /\ IF LockFromFirst(tx)
                   THEN /\ fromAcc' = [fromAcc EXCEPT ![p] =
                                 [id |-> id, balance |-> View(p, id)]]
                        /\ toAcc' = toAcc
                   ELSE /\ toAcc' = [toAcc EXCEPT ![p] =
                                 [id |-> id, balance |-> View(p, id)]]
                        /\ fromAcc' = fromAcc
                /\ pc' = [pc EXCEPT ![p] = "lock2"]
                /\ UNCHANGED <<accounts, transactions, req, txStart, writes,
                               inserted, outcome>>
    /\ UNCHANGED <<seq, clock>>
    /\ UNCHANGED createVars
    /\ UNCHANGED queryVars

\* lockAndGetAccount of the other row, then the sufficiency check
TransferLockSecond(p) ==
    /\ pc[p] = "lock2"
    /\ LET tx == req[p]
           id == uuidValue(SecondLockText(tx))
       IN  IF ~Exists(id)
           THEN Abort(p, 404, "not_found")
           ELSE /\ LockFree(p, id)
                /\ LET read == [id |-> id, balance |-> View(p, id)]
                       src == IF LockFromFirst(tx) THEN fromAcc[p] ELSE read
                   IN  IF InsufficientFunds(src.balance, tx.amount)
                       THEN Abort(p, 400, "insufficient_funds")
                       ELSE /\ locks' = [locks EXCEPT ![p] =
                                   IF InSeq(id, @) THEN @ ELSE Append(@, id)]
                            /\ IF LockFromFirst(tx)
                               THEN /\ toAcc' = [toAcc EXCEPT ![p] = read]
                                    /\ fromAcc' = fromAcc
                               ELSE /\ fromAcc' = [fromAcc EXCEPT ![p] = read]
                                    /\ toAcc' = toAcc
                            /\ pc' = [pc EXCEPT ![p] = "debit"]
                            /\ UNCHANGED <<accounts, transactions, req,
                                           txStart, writes, inserted, outcome>>
    /\ UNCHANGED <<seq, clock>>
    /\ UNCHANGED createVars
    /\ UNCHANGED queryVars

\* UPDATE accounts SET balance = balance - $1 WHERE id = $2
TransferDebit(p) ==
    /\ pc[p] = "debit"
    /\ LET id == uuidValue(req[p].from)
           new == DebitValue(View(p, id), req[p].amount)
       IN  IF ~BalanceCheck(new)
           THEN Abort(p, 500, "fault")
           ELSE /\ writes' = [writes EXCEPT ![p] = Put(@, id, new)]
                /\ pc' = [pc EXCEPT ![p] = "credit"]
                /\ UNCHANGED <<accounts, transactions, req, txStart, fromAcc,
                               toAcc, locks, inserted, outcome>>
    /\ UNCHANGED <<seq, clock>>
    /\ UNCHANGED createVars
    /\ UNCHANGED queryVars

\* UPDATE accounts SET balance = balance + $1 WHERE id = $2
TransferCredit(p) ==
    /\ pc[p] = "credit"
    /\ LET id == uuidValue(req[p].to)
           new == CreditValue(View(p, id), req[p].amount)
       IN  IF ~BalanceCheck(new)
           THEN Abort(p, 500, "fault")
           ELSE /\ writes' = [writes EXCEPT ![p] = Put(@, id, new)]
                /\ pc' = [pc EXCEPT ![p] = "insert"]
                /\ UNCHANGED <<accounts, transactions, req, txStart, fromAcc,
                               toAcc, locks, inserted, outcome>>
    /\ UNCHANGED <<seq, clock>>
    /\ UNCHANGED createVars
    /\ UNCHANGED queryVars

\* INSERT INTO transactions ... RETURNING id, created_at, with the BEFORE
\* triggers, the constraints and the AFTER trigger of the table
TransferInsert(p) ==
    /\ pc[p] = "insert"
    /\ seq' = seq + 1
    /\ LET row == [id |-> seq + 1,
                   from_account |-> uuidValue(req[p].from),
                   to_account |-> uuidValue(req[p].to),
                   amount |-> RoundNumeric(req[p].amount),
                   status |-> "completed",
                   created_at |-> txStart[p]]
           w == [id \in {row.from_account, row.to_account} |-> View(p, id)]
           after == update_balances(w, row)
       IN  IF ~InsertAccepted(w, row, after)
           THEN Abort(p, 500, "fault")
           ELSE /\ writes' = [writes EXCEPT ![p] =
                       [id \in DOMAIN @ \cup DOMAIN after |->
                           IF id \in DOMAIN after THEN after[id] ELSE @[id]]]
                /\ inserted' = [inserted EXCEPT ![p] = Append(@, row)]
                /\ pc' = [pc EXCEPT ![p] = "commit"]
                /\ UNCHANGED <<accounts, transactions, req, txStart, fromAcc,
                               toAcc, locks, outcome>>
    /\ UNCHANGED clock
    /\ UNCHANGED createVars
    /\ UNCHANGED queryVars

\* (variant: the commit stores the record of the transfer twice)
CommitTransactionsTwice(p) == transactions \o inserted[p] \o inserted[p]

\* the committed transactions rows after the inserts of p are committed
CommitTransactions(p) == transactions \o inserted[p]

\* dbTx.Commit and the success response
TransferCommit(p) ==
    /\ pc[p] = "commit"
    /\ accounts' = CommitAccounts(p)
    /\ transactions' = CommitTransactions(p)
    /\ locks' = [locks EXCEPT ![p] = <<>>]
    /\ writes' = [writes EXCEPT ![p] = NoWrites]
    /\ inserted' = [inserted EXCEPT ![p] = <<>>]
    /\ TransferRespond(p, 200, "ok")
    /\ UNCHANGED <<seq, clock>>
    /\ UNCHANGED createVars
    /\ UNCHANGED queryVars

\* a storage call of the request returns an error other than ErrNoRows:
\* the connection failed or the 5 second deadline of ctx expired
TransferFault(p) ==
    /\ pc[p] \in InTx
    /\ Abort(p, 500, "fault")
    /\ UNCHANGED <<seq, clock>>
    /\ UNCHANGED createVars
    /\ UNCHANGED queryVars

\* ----------------------------------------------------------- CreateAccount
\* another transaction has inserted a row with this key and not yet ended:
\* the unique index of the primary key makes the INSERT wait for it
InsertPending(p, id) == \E q \in Procs \ {p} : id \in DOMAIN created[q]

\* CreateAccount returns: its locals are gone, the deferred tx.Rollback()
\* discards what was not committed
CreateRespond(p, code, kind) ==
    /\ Respond(p, code, kind)
    /\ acc' = [acc EXCEPT ![p] = ZeroBody]
    /\ created' = [created EXCEPT ![p] = NoRows]

\* uuid.New().String(): an identifier no request and no row carries yet
GenerateAccountID == LowerC

Unused(id) ==
    /\ ~Exists(id)
    /\ \A q \in Procs : acc[q].id # id /\ id \notin DOMAIN created[q]

\* decode the body, generate the identifier if there is none, validate,
\* then ws.db.BeginTx
CreateBegin(p, body) ==
    /\ Receivable(p)
    /\ body.id = <<>> => Unused(GenerateAccountID)
    /\ LET a == IF body.id = <<>>
                THEN [body EXCEPT !.id = GenerateAccountID] ELSE body
       IN  IF ValidateAccount(a) # <<>>
           THEN /\ CreateRespond(p, 400, "validation")
                /\ UNCHANGED clock
           ELSE /\ pc' = [pc EXCEPT ![p] = "exists"]
                /\ acc' = [acc EXCEPT ![p] = a]
                /\ clock' = clock + 1
                /\ txStart' = [txStart EXCEPT ![p] = clock + 1]
                /\ UNCHANGED <<created, outcome>>
    /\ UNCHANGED <<accounts, transactions>>
    /\ UNCHANGED transferVars
    /\ UNCHANGED queryVars

\* ws.db.BeginTx returns an error
CreateBeginFault(p) ==
    /\ Receivable(p)
    /\ \E body \in Bodies : ValidateAccount(body) = <<>>
    /\ CreateRespond(p, 500, "fault")
    /\ UNCHANGED <<accounts, transactions, clock>>
    /\ UNCHANGED transferVars
    /\ UNCHANGED queryVars

\* SELECT EXISTS(SELECT 1 FROM accounts WHERE id = $1)
CreateExists(p) ==
    /\ pc[p] = "exists"
    /\ IF Exists(uuidValue(acc[p].id))
       THEN CreateRespond(p, 409, "conflict")
       ELSE /\ pc' = [pc EXCEPT ![p] = "create"]
            /\ UNCHANGED <<acc, created, outcome, txStart>>
    /\ UNCHANGED <<accounts, transactions, clock>>
    /\ UNCHANGED transferVars
    /\ UNCHANGED queryVars

\* INSERT INTO accounts ... RETURNING created_at
CreateInsert(p) ==
    /\ pc[p] = "create"
    /\ LET id == uuidValue(acc[p].id)
           row == [balance |-> RoundNumeric(acc[p].balance),
                   currency |-> acc[p].currency,
                   created_at |-> txStart[p]]
       IN  /\ ~InsertPending(p, id)
           /\ IF Exists(id) \/ ~BalanceCheck(row.balance)
              THEN CreateRespond(p, 500, "fault")
              ELSE /\ created' = [created EXCEPT ![p] = Put(@, id, row)]
                   /\ pc' = [pc EXCEPT ![p] = "created"]
                   /\ UNCHANGED <<acc, outcome, txStart>>
    /\ UNCHANGED <<accounts, transactions, clock>>
    /\ UNCHANGED transferVars
    /\ UNCHANGED queryVars

\* tx.Commit and the created response
CreateCommit(p) ==
    /\ pc[p] = "created"
    /\ accounts' = [id \in DOMAIN accounts \cup DOMAIN created[p] |->
                       IF id \in DOMAIN created[p] THEN created[p][id]
                       ELSE accounts[id]]
    /\ CreateRespond(p, 201, "created")
    /\ UNCHANGED <<transactions, clock>>
    /\ UNCHANGED transferVars
    /\ UNCHANGED queryVars

\* a storage call of the request returns an error: the connection failed
\* or the 5 second deadline of ctx expired
CreateFault(p) ==
    /\ pc[p] \in {"exists", "create", "created"}
    /\ CreateRespond(p, 500, "fault")
    /\ UNCHANGED <<accounts, transactions, clock>>
    /\ UNCHANGED transferVars
    /\ UNCHANGED queryVars

\* ------------------------------------------------------------------ queries
\* isValidUUID: uuid.Parse(u) returns no error
isValidUUID(u) == uuidParseOk(u)

\* LIMIT 100 of the history query
QueryLimit == 100

\* WHERE from_account = $1 OR to_account = $1
References(row, id) == row.from_account = id \/ row.to_account = id

\* (variant: the query also reads the rows inserted by transactions that
\* have not committed)
HistoryRowsUncommitted(id) ==
    LET RECURSIVE Pending(_)
        Pending(ps) ==
            IF ps = {} THEN <<>>
            ELSE LET q == CHOOSE x \in ps : \A y \in ps : x <= y
                 IN  inserted[q] \o Pending(ps \ {q})
    IN  SelectSeq(transactions \o Pending(Procs),
                  LAMBDA row : References(row, id))

\* the committed rows of transactions the WHERE clause selects
HistoryRows(id) == SelectSeq(transactions, LAMBDA row : References(row, id))

RECURSIVE OrderByCreatedAtDesc(_)
\* ORDER BY created_at DESC; the rows of the model carry distinct times,
\* since every row is stamped with the start time of its own transaction
OrderByCreatedAtDesc(rows) ==
    IF rows = <<>> THEN <<>>
    ELSE LET i == CHOOSE k \in 1..Len(rows) :
                      \A j \in 1..Len(rows) :
                          rows[k].created_at >= rows[j].created_at
         IN  <<rows[i]>> \o OrderByCreatedAtDesc(
                 SubSeq(rows, 1, i - 1) \o SubSeq(rows, i + 1, Len(rows)))

Limit(rows, n) == SubSeq(rows, 1, IF Len(rows) < n THEN Len(rows) ELSE n)

\* the response of a query handler; seen records the number of committed
\* transfers and accounts it was made after, and whether it repeats the
\* previous query with no commit in between
QueryRespond(op, id, code, body) ==
    /\ reply' = [op |-> op, id |-> id, code |-> code, body |-> body]
    /\ seen' = [txs |-> Len(transactions),
                accts |-> Cardinality(DOMAIN accounts),
                again |-> /\ reply.op = op
                          /\ reply.id = id
                          /\ seen.txs = Len(transactions)
                          /\ seen.accts = Cardinality(DOMAIN accounts)]
    /\ qpc' = "idle"
    /\ query' = <<>>

\* GET /balance/{id}: SELECT id, balance, created_at FROM accounts
GetBalance(id) ==
    /\ qpc = "idle"
    /\ IF ~isValidUUID(id)
       THEN QueryRespond("balance", id, 400, <<>>)
       ELSE IF ~Exists(uuidValue(id))
       THEN QueryRespond("balance", id, 404, <<>>)
       ELSE QueryRespond("balance", id, 200,
                <<[id |-> uuidValue(id),
                   balance |-> accounts[uuidValue(id)].balance,
                   created_at |-> accounts[uuidValue(id)].created_at]>>)
    /\ UNCHANGED <<accounts, transactions, cfg>>
    /\ UNCHANGED requestVars

\* GET /transactions/{id}: the identifier check and SELECT EXISTS
GetTransactionHistory(id) ==
    /\ qpc = "idle"
    /\ IF ~isValidUUID(id)
       THEN QueryRespond("history", id, 400, <<>>)
       ELSE IF ~Exists(uuidValue(id))
       THEN QueryRespond("history", id, 404, <<>>)
       ELSE /\ qpc' = "rows"
            /\ query' = id
            /\ UNCHANGED <<reply, seen>>
    /\ UNCHANGED <<accounts, transactions, cfg>>
    /\ UNCHANGED requestVars

\* GET /transactions/{id}: the SELECT over transactions, a statement of its
\* own outside any storage transaction, and the response
GetTransactionHistoryRows ==
    /\ qpc = "rows"
    /\ QueryRespond("history", query, 200,
           Limit(OrderByCreatedAtDesc(HistoryRows(uuidValue(query))),
                 QueryLimit))
    /\ UNCHANGED <<accounts, transactions, cfg>>
    /\ UNCHANGED requestVars

\* a storage call of a query returns an error other than ErrNoRows
QueryFault(op, id) ==
    /\ \/ qpc = "idle" /\ isValidUUID(id)
       \/ qpc = "rows" /\ op = "history" /\ id = query
    /\ QueryRespond(op, id, 500, <<>>)
    /\ UNCHANGED <<accounts, transactions, cfg>>
    /\ UNCHANGED requestVars

Next ==
    \/ \E p \in Procs : \E tx \in Requests : TransferBegin(p, tx)
    \/ \E p \in Procs : TransferBeginFault(p)
    \/ \E p \in Procs : TransferLockFirst(p)
    \/ \E p \in Procs : TransferLockSecond(p)
    \/ \E p \in Procs : TransferDebit(p)
    \/ \E p \in Procs : TransferCredit(p)
    \/ \E p \in Procs : TransferInsert(p)
    \/ \E p \in Procs : TransferCommit(p)
    \/ \E p \in Procs : TransferFault(p)
    \/ \E p \in Procs : \E body \in Bodies : CreateBegin(p, body)
    \/ \E p \in Procs : CreateBeginFault(p)
    \/ \E p \in Procs : CreateExists(p)
    \/ \E p \in Procs : CreateInsert(p)
    \/ \E p \in Procs : CreateCommit(p)
    \/ \E p \in Procs : CreateFault(p)

Spec == Init /\ [][Next]_vars

\* ------------------------------------------- the service with its queries
\* the identifiers the query client asks for
QueryTexts == {LowerA, LowerB, NotHex}

\* the history limits an operator configures
Limits == {1, DefaultHistoryLimit}

\* the transfer bodies and account bodies sent next to the queries:
\* canonical identifiers and amounts in whole cents
QueryRequests ==
    {tx \in Requests : /\ tx.from \in {LowerA, LowerB}
                       /\ tx.to \in {LowerA, LowerB}
                       /\ tx.amount >= 1
                       /\ tx.amount % 2 = 0}

QueryBodies ==
    {body \in Bodies : /\ body.id = LowerB
                       /\ body.balance >= 0
                       /\ body.currency = "USD"}

QueryInit ==
    /\ InitLedger
    /\ \A id \in DOMAIN accounts : accounts[id].currency = "USD"
    /\ InitQueries
    /\ cfg \in Limits

QueryNext ==
    \/ \E p \in Procs : \E tx \in QueryRequests : TransferBegin(p, tx)
    \/ \E p \in Procs : TransferLockFirst(p)
    \/ \E p \in Procs : TransferLockSecond(p)
    \/ \E p \in Procs : TransferDebit(p)
    \/ \E p \in Procs : TransferCredit(p)
    \/ \E p \in Procs : TransferInsert(p)
    \/ \E p \in Procs : TransferCommit(p)
    \/ \E p \in Procs : \E body \in QueryBodies : CreateBegin(p, body)
    \/ \E p \in Procs : CreateExists(p)
    \/ \E p \in Procs : CreateInsert(p)
    \/ \E p \in Procs : CreateCommit(p)
    \/ \E id \in QueryTexts : GetBalance(id)
    \/ \E id \in QueryTexts : GetTransactionHistory(id)
    \/ GetTransactionHistoryRows
    \/ \E id \in QueryTexts : \E op \in {"balance", "history"} :
          QueryFault(op, id)

QuerySpec == QueryInit /\ [][QueryNext]_vars

\* ------------------------------------- the service with four accounts
FrameTexts == {LowerA, LowerB, LowerC, LowerD}

\* transfers between any two of four accounts, amounts in whole cents
FrameRequests ==
    {tx \in [from : FrameTexts, to : FrameTexts, amount : Amounts] :
        tx.amount >= 1 /\ tx.amount % 2 = 0}

\* accounts a and c are opened with two cents, b and d with one
FrameBalance(id) == IF id \in {LowerA, LowerC} THEN 2 ELSE 1

FrameInit ==
    /\ accounts = [k \in FrameTexts |->
                      [balance |-> FrameBalance(k), currency |-> "USD",
                       created_at |-> 0]]
    /\ transactions = <<>>
    /\ seq = 0
    /\ clock = 0
    /\ pc = [p \in Procs |-> "idle"]
    /\ req = [p \in Procs |-> ZeroTx]
    /\ acc = [p \in Procs |-> ZeroBody]
    /\ created = [p \in Procs |-> NoRows]
    /\ txStart = [p \in Procs |-> 0]
    /\ fromAcc = [p \in Procs |-> ZeroAccount]
    /\ toAcc = [p \in Procs |-> ZeroAccount]
    /\ locks = [p \in Procs |-> <<>>]
    /\ writes = [p \in Procs |-> NoWrites]
    /\ inserted = [p \in Procs |-> <<>>]
    /\ outcome = [p \in Procs |-> NoOutcome]
    /\ InitQueries
    /\ cfg = DefaultHistoryLimit

FrameNext ==
    \/ \E p \in Procs : \E tx \in FrameRequests : TransferBegin(p, tx)
    \/ \E p \in Procs : TransferLockFirst(p)
    \/ \E p \in Procs : TransferLockSecond(p)
    \/ \E p \in Procs : TransferDebit(p)
    \/ \E p \in Procs : TransferCredit(p)
    \/ \E p \in Procs : TransferInsert(p)
    \/ \E p \in Procs : TransferCommit(p)
    \/ \E p \in Procs : TransferFault(p)

FrameSpec == FrameInit /\ [][FrameNext]_vars

\* ------------------------------------- the validation of transfer bodies
\* every transfer body is decoded and validated; one ledger
ValidationInit == Init /\ Exists(LowerB) /\ accounts[LowerB].currency = "USD"

ValidationNext == \E p \in Procs : \E tx \in Requests : TransferBegin(p, tx)

ValidationSpec == ValidationInit /\ [][ValidationNext]_vars

\* --------------------------------------------- the creation of accounts
CreateNext ==
    \/ \E p \in Procs : \E body \in Bodies : CreateBegin(p, body)
    \/ \E p \in Procs : CreateBeginFault(p)
    \/ \E p \in Procs : CreateExists(p)
    \/ \E p \in Procs : CreateInsert(p)
    \/ \E p \in Procs : CreateCommit(p)
    \/ \E p \in Procs : CreateFault(p)

CreateSpec == Init /\ [][CreateNext]_vars

\* ------------------------------------------------ the service, scheduled
\* a step of the handler that runs transfer p after BeginTx
TransferStep(p) ==
    \/ TransferLockFirst(p)
    \/ TransferLockSecond(p)
    \/ TransferDebit(p)
    \/ TransferCredit(p)
    \/ TransferInsert(p)
    \/ TransferCommit(p)
    \/ TransferFault(p)

\* the transfer bodies of the scheduled service: every textual form of the
\* two accounts, amounts in whole cents
FairRequests ==
    {tx \in Requests : /\ tx.from \in {LowerA, LowerB, UpperB}
                       /\ tx.to \in {LowerA, LowerB, UpperB}
                       /\ tx.amount >= 1
                       /\ tx.amount % 2 = 0}

FairNext ==
    \/ \E p \in Procs : \E tx \in FairRequests : TransferBegin(p, tx)
    \/ \E p \in Procs : TransferBeginFault(p)
    \/ \E p \in Procs : TransferStep(p)

\* the goroutine of a request keeps running, and a storage call that stays
\* blocked returns when the 5 second deadline of ctx expires
FairSpec ==
    /\ Init
    /\ [][FairNext]_vars
    /\ \A p \in Procs : WF_vars(TransferStep(p))

\* ================================================================ claims
Src(p) == uuidValue(req[p].from)

Dst(p) == uuidValue(req[p].to)

SmallerId(x, y) == IF StrLess(x, y) THEN x ELSE y

\* the row the next locked read of p asks for
LockTarget(p) ==
    IF pc[p] = "lock1" THEN uuidValue(FirstLockText(req[p]))
    ELSE uuidValue(SecondLockText(req[p]))

\* p is blocked in a locked read on a row whose lock q holds
WaitsFor(p, q) ==
    /\ pc[p] \in {"lock1", "lock2"}
    /\ Exists(LockTarget(p))
    /\ InSeq(LockTarget(p), locks[q])

RECURSIVE SumIn(_, _), SumOut(_, _), SumBalances(_), SumOpening(_)
\* sum of the amounts of the completed rows that credit id
SumIn(rows, id) ==
    IF rows = <<>> THEN 0
    ELSE (IF Head(rows).to_account = id /\ Head(rows).status = "completed"
          THEN Head(rows).amount ELSE 0) + SumIn(Tail(rows), id)

\* sum of the amounts of the completed rows that debit id
SumOut(rows, id) ==
    IF rows = <<>> THEN 0
    ELSE (IF Head(rows).from_account = id /\ Head(rows).status = "completed"
          THEN Head(rows).amount ELSE 0) + SumOut(Tail(rows), id)

SumBalances(ids) ==
    IF ids = {} THEN 0
    ELSE LET id == CHOOSE x \in ids : TRUE
         IN  accounts[id].balance + SumBalances(ids \ {id})

SumOpening(ids) ==
    IF ids = {} THEN 0
    ELSE LET id == CHOOSE x \in ids : TRUE
         IN  OpeningBalance(id) + SumOpening(ids \ {id})

Quiet == \A q \in Procs : pc[q] \in {"idle", "done"}

\* C1: every transfer between two distinct accounts takes its first row lock
\* on the account with the smaller identifier, whatever the direction and
\* the textual form of the identifiers in the request.
C1_SmallerLockedFirst ==
    \A p \in Procs :
        (Len(locks[p]) >= 1 /\ Src(p) # Dst(p))
            => locks[p][1] = SmallerId(Src(p), Dst(p))

\* C2: concurrent transfers in both directions between the same two
\* accounts never reach a deadlock: no two transfers each wait for a row
\* lock the other holds.
C2_NoDeadlock ==
    ~ \E p \in Procs, q \in Procs :
          p # q /\ WaitsFor(p, q) /\ WaitsFor(q, p)

\* C3: a transfer that succeeds moves exactly the amount: the stored source
\* balance decreases by the amount, the stored destination balance increases
\* by the amount, and a completed record referencing both accounts is stored.
C3_ExactAmountMoved ==
    [][\A p \in Procs :
          (pc[p] = "commit" /\ pc'[p] = "done" /\ outcome'[p].code = 200)
              => /\ Exact(accounts'[Src(p)].balance)
                       = Exact(accounts[Src(p)].balance) - req[p].amount
                 /\ Exact(accounts'[Dst(p)].balance)
                       = Exact(accounts[Dst(p)].balance) + req[p].amount
                 /\ \E i \in 1..Len(transactions') :
                       /\ transactions'[i].from_account = Src(p)
                       /\ transactions'[i].to_account = Dst(p)
                       /\ transactions'[i].status = "completed"]_vars

\* C4: a transfer is all-or-nothing: a transfer that ends without success
\* after its transaction was begun leaves the stored accounts and the stored
\* records as they were, and the stored state changes only in the step in
\* which a transfer commits.
C4_AllOrNothing ==
    [][/\ \A p \in Procs :
             (pc[p] \in InTx /\ pc'[p] = "done" /\ outcome'[p].code # 200)
                 => (accounts' = accounts /\ transactions' = transactions)
       /\ (\/ \E id \in DOMAIN accounts : accounts'[id] # accounts[id]
           \/ transactions' # transactions)
             => \E p \in Procs :
                   pc[p] = "commit" /\ outcome'[p].code = 200]_vars

\* a transfer failed after its record insert was executed, and nothing of
\* it is stored
C4_Witness ==
    /\ Quiet
    /\ seq >= 1
    /\ transactions = <<>>
    /\ accounts \in Seeds
    /\ \E p \in Procs : outcome[p] = [code |-> 500, kind |-> "fault"]

\* C5: when the source balance under the row lock is less than the amount
\* and both locked reads succeed, the transfer ends with the
\* insufficient-funds outcome (bad request) and stores nothing.
C5_InsufficientFunds ==
    [][\A p \in Procs :
          (/\ pc[p] = "lock2"
           /\ pc'[p] # "lock2"
           /\ outcome'[p].kind \notin {"fault", "not_found"}
           /\ Exists(Src(p))
           /\ Exact(accounts[Src(p)].balance) < req[p].amount)
              => /\ outcome'[p] = [code |-> 400, kind |-> "insufficient_funds"]
                 /\ accounts' = accounts
                 /\ transactions' = transactions
                 /\ inserted'[p] = <<>>]_vars

C5_Witness ==
    \E p \in Procs : outcome[p] = [code |-> 400, kind |-> "insufficient_funds"]

\* C6: in every committed state, whatever account creations and transfers
\* have run and however they interleaved, no account has a negative balance.
C6_NonNegative ==
    \A id \in DOMAIN accounts : accounts[id].balance >= 0

\* an account created by a request has been emptied by a committed transfer
C6_Witness ==
    /\ Len(transactions) >= 1
    /\ \E id \in DOMAIN accounts :
          accounts[id].created_at > 0 /\ accounts[id].balance = 0

\* C7: the stored balance of every account is its opening balance plus the
\* amounts of the completed records that credit it minus the amounts of the
\* completed records that debit it.
C7_BalancesMatchRecords ==
    \A id \in DOMAIN accounts :
        accounts[id].balance
            = OpeningBalance(id) + SumIn(transactions, id)
                                 - SumOut(transactions, id)

\* C8: transfers conserve money: the sum of the stored balances is the sum
\* of the opening balances of the accounts.
C8_Conservation ==
    SumBalances(DOMAIN accounts) = SumOpening(DOMAIN accounts)

\* C9: a locked read of a transfer that finds no account ends the transfer
\* with the not-found outcome, stores nothing and leaves no row lock of the
\* transfer held; a transfer past its locked reads has both accounts.
C9_NotFound ==
    [][\A p \in Procs :
          /\ (/\ pc[p] \in {"lock1", "lock2"}
              /\ pc'[p] # pc[p]
              /\ outcome'[p].kind # "fault"
              /\ ~Exists(LockTarget(p)))
                 => /\ outcome'[p] = [code |-> 404, kind |-> "not_found"]
                    /\ accounts' = accounts
                    /\ transactions' = transactions
                    /\ locks'[p] = <<>>
          /\ (pc'[p] \in {"debit", "credit", "insert", "commit"})
                 => /\ uuidValue(req'[p].from) \in DOMAIN accounts'
                    /\ uuidValue(req'[p].to) \in DOMAIN accounts']_vars

\* a transfer ended not-found on the ledger in which account b is missing
\* and account a, which every transfer to or from b locks, exists
C9_Witness ==
    /\ DOMAIN accounts = {LowerA}
    /\ \E p \in Procs : outcome[p] = [code |-> 404, kind |-> "not_found"]

\* C10: a transfer whose source and destination identify the same account
\* never gets past validation: no storage transaction is begun for it.
C10_SameAccountRejected ==
    \A p \in Procs : pc[p] \in InTx => Src(p) # Dst(p)

\* C11: every stored transaction record references a source and a
\* destination account of the same currency, and a step of a transfer
\* between two accounts of different currencies, its last step included,
\* changes no stored balance.
C11_SameCurrency ==
    [][/\ \A i \in 1..Len(transactions') :
             accounts'[transactions'[i].from_account].currency
                = accounts'[transactions'[i].to_account].currency
       /\ \A p \in Procs :
             (/\ pc[p] \in InTx
              /\ pc'[p] # pc[p]
              /\ Exists(Src(p)) /\ Exists(Dst(p))
              /\ accounts[Src(p)].currency # accounts[Dst(p)].currency)
                 => /\ accounts' = accounts
                    /\ transactions' = transactions
                    /\ outcome'[p].code # 200]_vars

\* the only request so far was a transfer between the USD account and the
\* EUR account; its record insert was executed, and nothing of it is stored
C11_Witness ==
    /\ Exists(LowerB)
    /\ accounts[LowerA].currency # accounts[LowerB].currency
    /\ seq = 1
    /\ transactions = <<>>
    /\ accounts \in Seeds
    /\ \E p \in Procs :
          /\ outcome[p] = [code |-> 500, kind |-> "fault"]
          /\ \A q \in Procs \ {p} : pc[q] = "idle"

\* C12: a transfer ends with the internal-fault outcome only when a storage
\* call failed or timed out; a business-rule failure (invalid input,
\* unknown account, insufficient funds, currency mismatch) is reported as
\* bad-request or not-found.
C12_FaultOnlyFromStorage ==
    [][\A p \in Procs :
          (pc[p] \in InTx /\ outcome'[p].code = 500) => TransferFault(p)]_vars

\* C13: a create request whose identifier is already stored when its
\* existence check or its insert is executed receives the conflict outcome
\* and leaves the stored accounts unchanged, so that of concurrent creates of
\* one identifier one creates the account and every other receives conflict;
\* a create that commits never replaces a stored account.
C13_ConflictOnExistingId ==
    [][\A p \in Procs :
          /\ ((CreateExists(p) \/ CreateInsert(p))
                 /\ Exists(uuidValue(acc[p].id)))
                => /\ outcome'[p] = [code |-> 409, kind |-> "conflict"]
                   /\ accounts' = accounts
          /\ CreateCommit(p) => ~Exists(uuidValue(acc[p].id))]_vars

\* C14: a history query for an existing account returns only records that
\* reference the account as source or destination, newest first, and never
\* more records than the configured history limit; for a missing account it
\* returns not-found.
C14_History ==
    [][/\ (reply'.op = "history" /\ reply'.code = 200)
             => /\ \A i \in 1..Len(reply'.body) :
                      References(reply'.body[i], uuidValue(reply'.id))
                /\ \A i \in 1..Len(reply'.body), j \in 1..Len(reply'.body) :
                      i < j => reply'.body[i].created_at
                                  >= reply'.body[j].created_at
                /\ Len(reply'.body) <= cfg
       /\ \A id \in QueryTexts :
             (GetTransactionHistory(id) /\ isValidUUID(id)
                  /\ ~Exists(uuidValue(id)))
                => reply'.code = 404]_vars

\* a step of a query handler
QueryStep == queryVars' # queryVars

\* a query handler responds, and neither this response nor the previous one
\* reports a storage failure
QueryResult ==
    /\ QueryStep
    /\ qpc' = "idle"
    /\ reply.code \notin {0, 500}
    /\ reply'.code # 500

\* C15 as stated: a query changes no stored account or record, and a query
\* that repeats the previous one with no transfer committed in between
\* returns the identical result.
C15_RepeatableReads ==
    [][/\ QueryStep => (accounts' = accounts /\ transactions' = transactions)
       /\ (/\ QueryResult
           /\ reply'.op = reply.op
           /\ reply'.id = reply.id
           /\ seen.txs = Len(transactions))
             => reply'.body = reply.body /\ reply'.code = reply.code]_vars

\* C15, amended: a query changes no stored account or record, and a query
\* that repeats the previous one with no transfer and no account creation
\* committed in between returns the identical result: same status, same
\* values, same order.
C15_RepeatableReadsNoCommit ==
    [][/\ QueryStep => (accounts' = accounts /\ transactions' = transactions)
       /\ (QueryResult /\ seen'.again)
             => reply'.body = reply.body /\ reply'.code = reply.code]_vars

\* a history query was repeated with no commit in between and returned the
\* records of the account again, while a transfer is past its record insert
C15_Witness ==
    /\ seen.again
    /\ reply.op = "history"
    /\ reply.code = 200
    /\ Len(reply.body) >= 1
    /\ \E p \in Procs : pc[p] = "commit"

\* C16: transfers that share an account are serialized: a row lock is held
\* by one transfer at a time, a transfer writes only balances of rows it
\* has locked, the source balance a transfer has read under the lock is
\* still the committed balance when it debits, and the recorded amounts of
\* the transfers completed from an account that received nothing never
\* exceed the balance it was opened with.
C16_Serialized ==
    /\ \A p \in Procs, q \in Procs, id \in DOMAIN accounts :
          (InSeq(id, locks[p]) /\ InSeq(id, locks[q])) => p = q
    /\ \A p \in Procs : \A id \in DOMAIN writes[p] : InSeq(id, locks[p])
    /\ \A p \in Procs :
          (pc[p] \in {"lock2", "debit"} /\ fromAcc[p].id # <<>>)
              => fromAcc[p].balance = accounts[fromAcc[p].id].balance
    /\ \A id \in DOMAIN accounts :
          SumIn(transactions, id) = 0
              => SumOut(transactions, id) <= OpeningBalance(id)

\* a transfer waits for the lock on its source row while another transfer
\* from the same source, which holds the lock, is about to commit
C16_Witness ==
    \E p \in Procs, q \in Procs :
        /\ WaitsFor(p, q)
        /\ pc[q] = "commit"
        /\ Src(p) = Src(q)
        /\ LockTarget(p) = Src(p)

\* C17: every transfer whose storage transaction was begun eventually ends;
\* a transfer that has ended has exactly one outcome, success, bad-request,
\* not-found or internal fault, which never changes afterwards, and holds
\* no row lock and no uncommitted write or record.
C17_Terminates ==
    /\ \A p \in Procs : (pc[p] \in InTx) ~> (pc[p] = "done")
    /\ [](\A p \in Procs :
            pc[p] = "done"
               => /\ outcome[p].code \in {200, 201, 400, 404, 409, 500}
                  /\ locks[p] = <<>>
                  /\ writes[p] = NoWrites
                  /\ inserted[p] = <<>>)
    /\ [][\A p \in Procs :
             /\ outcome[p] # NoOutcome => outcome'[p] = outcome[p]
             /\ (pc[p] \in InTx /\ pc'[p] = "done")
                   => outcome'[p].code \in {200, 400, 404, 500}]_vars

\* two transfers had locked one row each and waited for the other's; one
\* was ended by its deadline, holds nothing, and the other went on
C17_Witness ==
    \E p \in Procs, q \in Procs :
        /\ pc[p] = "done"
        /\ outcome[p] = [code |-> 500, kind |-> "fault"]
        /\ locks[p] = <<>>
        /\ pc[q] = "debit"
        /\ Len(locks[q]) = 2
        /\ LockFromFirst(req[q])

\* the committed balances
Balances == [id \in DOMAIN accounts |-> accounts[id].balance]

\* the accounts a transfer body names
Touched(tx) == {uuidValue(tx.from), uuidValue(tx.to)}

\* p is in a locked read that another transaction's lock keeps waiting
Blocked(p) ==
    /\ pc[p] \in {"lock1", "lock2"}
    /\ Exists(LockTarget(p))
    /\ ~LockFree(p, LockTarget(p))

\* C18: a step changes the balance of an account only when a transfer with
\* that account as source or destination commits, and changes the stored
\* records only by appending the one record of the committing transfer;
\* a transfer waits in a locked read only while a transfer sharing one of
\* its accounts holds a lock; the committed balances after a commit are
\* those the transfer leaves when run alone, and two transfers in progress
\* that share no account leave the same balances in either order.
C18_Frame ==
    /\ [][\A id \in DOMAIN accounts :
             accounts'[id] # accounts[id]
                => \E p \in Procs :
                      TransferCommit(p) /\ id \in Touched(req[p])]_vars
    /\ [][transactions' # transactions
             => \E p \in Procs :
                   /\ TransferCommit(p)
                   /\ Len(transactions') = Len(transactions) + 1
                   /\ SubSeq(transactions', 1, Len(transactions))
                         = transactions
                   /\ transactions'[Len(transactions')].from_account = Src(p)
                   /\ transactions'[Len(transactions')].to_account
                         = Dst(p)]_vars
    /\ [][\A p \in Procs :
             TransferCommit(p)
                => [id \in DOMAIN accounts' |-> accounts'[id].balance]
                      = TransferResult(Balances, req[p])]_vars
    /\ [](\A p \in Procs :
            Blocked(p)
               => \E q \in Procs \ {p} :
                     /\ locks[q] # <<>>
                     /\ Touched(req[p]) \cap Touched(req[q]) # {})
    /\ [](\A p \in Procs, q \in Procs :
            (/\ pc[p] \in InTx
             /\ pc[q] \in InTx
             /\ Touched(req[p]) \cap Touched(req[q]) = {})
               => TransferResult(TransferResult(Balances, req[p]), req[q])
                     = TransferResult(TransferResult(Balances, req[q]),
                                      req[p]))

\* two transfers that share no account are both past their record insert,
\* each holding the locks of its own two rows
C18_Witness ==
    \E p \in Procs, q \in Procs :
        /\ pc[p] = "commit"
        /\ pc[q] = "commit"
        /\ Touched(req[p]) \cap Touched(req[q]) = {}

\* C19: a transfer that commits adds exactly one record, with status
\* completed; no other step changes the stored records, so a transfer that
\* does not commit adds none; a stored record is never modified or removed.
C19_Records ==
    [][/\ \A p \in Procs :
             TransferCommit(p)
                => /\ Len(transactions') = Len(transactions) + 1
                   /\ transactions'[Len(transactions')].status = "completed"
       /\ transactions' # transactions => \E p \in Procs : TransferCommit(p)
       /\ Len(transactions') >= Len(transactions)
       /\ \A i \in 1..Len(transactions) :
             transactions'[i] = transactions[i]]_vars

\* every request was a transfer that committed, and exactly two records,
\* one of each of two transfers, are stored
C19_Witness ==
    /\ Len(transactions) = 2
    /\ transactions[1].id # transactions[2].id
    /\ \A p \in Procs : outcome[p] = [code |-> 200, kind |-> "ok"]

\* an identifier text is well-formed: present and parsed as a UUID
WellFormed(text) == text # <<>> /\ uuidParseOk(text)

\* the rules of transfer validation a body breaks
BrokenRules(tx) ==
    {r \in {"source", "destination", "different", "amount"} :
        \/ r = "source" /\ ~WellFormed(tx.from)
        \/ r = "destination" /\ ~WellFormed(tx.to)
        \/ r = "different" /\ tx.to = tx.from
        \/ r = "amount" /\ ~(tx.amount > 0)}

\* the rule a reported violation is about
RuleOf(e) ==
    IF e.field = "From" THEN "source"
    ELSE IF e.field = "Amount" THEN "amount"
    ELSE IF e.tag = "nefield" THEN "different"
    ELSE "destination"

ReportedRules(errs) == {RuleOf(errs[i]) : i \in 1..Len(errs)}

\* the fields of a body that break one of their rules
BrokenFields(tx) ==
    {f \in {"From", "To", "Amount"} :
        \/ f = "From" /\ "source" \in BrokenRules(tx)
        \/ f = "To" /\ BrokenRules(tx) \cap {"destination", "different"} # {}
        \/ f = "Amount" /\ "amount" \in BrokenRules(tx)}

Rejectable(body) ==
    \/ body.currency \notin {"USD", "EUR", "GBP", "KZT"}
    \/ body.balance < 0
    \/ (body.id # <<>> /\ ~uuidParseOk(body.id))

\* C21: a create request whose currency is outside {USD, EUR, GBP, KZT},
\* whose balance is negative or whose supplied identifier is malformed is
\* answered with the validation error in its first step: no storage
\* transaction is begun and no account row is written, committed or not;
\* so every create request inside a storage transaction carries a valid
\* currency, a non-negative balance and a well-formed identifier.
C21_CreateValidated ==
    /\ [][\A p \in Procs, body \in Bodies :
             (CreateBegin(p, body) /\ Rejectable(body))
                => /\ outcome'[p] = [code |-> 400, kind |-> "validation"]
                   /\ pc'[p] = "done"
                   /\ clock' = clock
                   /\ txStart'[p] = 0
                   /\ accounts' = accounts
                   /\ created'[p] = NoRows]_vars
    /\ [](\A p \in Procs :
            pc[p] \in {"exists", "create", "created"}
               => ~Rejectable(acc[p]))
    /\ [](\A id \in DOMAIN accounts :
            /\ accounts[id].currency \in {"USD", "EUR", "GBP", "KZT"}
            /\ accounts[id].balance >= 0)

\* every create request so far was rejected by validation: no storage
\* transaction was ever begun and the ledger is the opening one
C21_Witness ==
    /\ clock = 0
    /\ accounts \in Seeds
    /\ \A p \in Procs :
          /\ pc[p] = "done"
          /\ outcome[p] = [code |-> 400, kind |-> "validation"]
          /\ created[p] = NoRows

\* C22: a transfer between two different accounts of the same currency
\* that has passed the handler's sufficiency check is accepted by the
\* storage as far as funds go: its debit passes the CHECK of the balance,
\* and at its record insert the balance trigger does not raise and the
\* balances the AFTER trigger leaves pass the CHECK.
C22_BackstopAgrees ==
    \A p \in Procs :
        /\ pc[p] = "debit"
              => BalanceCheck(DebitValue(View(p, Src(p)), req[p].amount))
        /\ (/\ pc[p] = "insert"
            /\ Src(p) # Dst(p)
            /\ accounts[Src(p)].currency = accounts[Dst(p)].currency)
              => LET row == [from_account |-> Src(p), to_account |-> Dst(p),
                             amount |-> RoundNumeric(req[p].amount)]
                     w == [id \in {Src(p), Dst(p)} |-> View(p, id)]
                     after == update_balances(w, row)
                 IN  /\ check_sufficient_balance(w[Src(p)], row.amount)
                     /\ \A id \in DOMAIN after : BalanceCheck(after[id])

\* the place of a stored record in the order in which the transfers were
\* applied, which is the order of their commits
AppliedAt(row) == CHOOSE k \in 1..Len(transactions) : transactions[k].id = row.id

\* C23: the newest-first order of a history agrees with the order in which
\* the transfers of the account were applied: of two records of the
\* account, the one applied later has the later creation timestamp, and
\* every history response lists it first.
C23_HistoryFollowsApplication ==
    /\ \A i \in 1..Len(transactions), j \in 1..Len(transactions) :
          (/\ i < j
           /\ {transactions[i].from_account, transactions[i].to_account}
                 \cap {transactions[j].from_account,
                       transactions[j].to_account} # {})
              => transactions[i].created_at < transactions[j].created_at
    /\ (reply.op = "history" /\ reply.code = 200)
          => \A i \in 1..Len(reply.body), j \in 1..Len(reply.body) :
                i < j => AppliedAt(reply.body[i]) > AppliedAt(reply.body[j])

====
